---- MODULE Spec2Model ----
(***************************************************************************)
(* Text-input scroll assist of ion-input / ion-textarea                    *)
(* (src/unnamed/part_000): the geometry function getScrollData, the        *)
(* duration mapping getScrollAssistDuration, and the per-field pointer /   *)
(* focus state machine set up by _enableScrollAssist.                      *)
(*                                                                         *)
(* Units.  The inputs of getScrollData are whole pixels.  safeAreaHeight   *)
(* is a division by two, so every quantity derived from it is kept in      *)
(* HALF pixels (a value v stands for v/2 px); Px(n) is n whole pixels.     *)
(* The fields of a ScrollData record are half pixels as well, which keeps  *)
(* "is a whole number of pixels" a property that can fail.                 *)
(* Durations are kept in thirds of a millisecond, because                  *)
(* d / SCROLL_ASSIST_SPEED = d / 0.3 = 10 d / 3.                           *)
(***************************************************************************)
EXTENDS Integers, Sequences, FiniteSets, TLC

VARIABLES
  geo,         \* SpecGeom: the arguments of one getScrollData call
  plan,        \* SpecGeom: the ScrollData it returned, NoPlan before the call
  dist,        \* SpecDur: two distances handed to getScrollAssistDuration
  dur,         \* SpecDur: the two durations returned, NoDur before the call
  useAssist,   \* config scrollAssist (part_000:234)
  usePadding,  \* config scrollPadding (part_000:239)
  blurOnFocus, \* config blurOnFocus (part_000:249)
  inputBlurring, \* config inputBlurring (part_000:244)
  sharedParent,\* layout: the fields' components have the same parent node
  clone,       \* config inputCloning (part_000:452)
  content,     \* the page has a Content, injected into its fields (part_000:220)
  appEnabled,  \* App.isEnabled(): the global interaction lock is open
  lockTimer,   \* duration of the armed lock timeout, 0 when none is armed
  coord,       \* per field: the closure variable coord (part_000:450)
  down,        \* per field: pointerDown returned true and pointerUp is still due
  isFocus,     \* per field: BaseInput.isFocus()
  relocated,   \* per field: the closure variable relocated (part_000:451)
  scrollData,  \* per field: TextInput._scrollData (part_000:119)
  scrolls,     \* per field: scrollTo calls whose completion callback is pending
  dom,         \* per field: clones, transform, opacity and pointer-events
  writes,      \* DomController: the write callbacks queued for the next frame
  scrolling,   \* the Content is between ionScrollStart and ionScrollEnd
  touch,       \* per field: its touchend listeners on the document, and the
               \* closure variable unrefBlur (part_000:365)
  edit,        \* per field: type, clearOnEdit, value, _didBlurAfterEdit; and for
               \* the properties: bound (clearOnEdit as the template set it),
               \* blurValue (the value at the last blur), keydowns since then
  toggle,      \* SpecMenu: one MenuToggle, its menu and its view
  form,        \* SpecForm: the Form registry, _inputs and _focused
  sync,        \* SpecSync: NativeSync, its _actionQueue, the bridge and the
               \* platform's ready promise
  last         \* what the handler that ran last did

geomVars == <<geo, plan>>
durVars == <<dist, dur>>
configVars == <<useAssist, usePadding, blurOnFocus, inputBlurring, sharedParent, clone, content>>
domVars == <<dom, writes, scrolling, touch>>
sideVars == <<edit, toggle, form, sync>>
lockVars == <<appEnabled, lockTimer>>
fieldVars == <<coord, down, isFocus, relocated, scrollData, scrolls>>

vars == <<geomVars, durVars, configVars, lockVars, fieldVars, domVars, sideVars, last>>

(***************************************************************************)
(* Bounds of the explored geometries.                                      *)
(***************************************************************************)
MaxOffsetTop == 10
MaxOffsetHeight == 5
MaxContentTop == 2
MaxScrollTop == 5
MaxKeyboard == 3
MaxPlatform == 11

Px(n) == 2 * n

Abs(n) == IF n < 0 THEN -n ELSE n

\* Variant of MathRound: rounds down instead of to the nearest pixel.
MathRound_Floor(h) == h \div 2

\* Math.round on a value given in half pixels; the result is whole pixels.
\* Math.round rounds a tie towards +infinity: round(-0.5) = 0, round(0.5) = 1.
MathRound(h) == (h + 1) \div 2

NoPlan == [none |-> TRUE]

\* The literal of part_000:671-676.
ZeroScrollData == [scrollAmount |-> 0, scrollTo |-> 0, scrollPadding |-> 0, inputSafeY |-> 0]

\* Intermediate values of getScrollData (part_000:644-657), half pixels.
inputTop(g) == Px(g.offsetTop + g.contentTop - g.scrollTop)
inputBottom(g) == inputTop(g) + Px(g.offsetHeight)
safeAreaTop(g) == Px(g.contentTop)
safeAreaHeight(g) == g.plaformHeight - g.keyboardHeight - g.contentTop
safeAreaBottom(g) == safeAreaTop(g) + safeAreaHeight(g)

inputTopWithinSafeArea(g) == inputTop(g) >= safeAreaTop(g) /\ inputTop(g) <= safeAreaBottom(g)
inputTopAboveSafeArea(g) == inputTop(g) < safeAreaTop(g)
inputTopBelowSafeArea(g) == inputTop(g) > safeAreaBottom(g)
inputBottomWithinSafeArea(g) == inputBottom(g) >= safeAreaTop(g) /\ inputBottom(g) <= safeAreaBottom(g)
inputBottomBelowSafeArea(g) == inputBottom(g) > safeAreaBottom(g)

\* Variant of RawScrollAmount: both differences taken the other way round.
RawScrollAmount_Swapped(g) ==
  IF safeAreaHeight(g) > Px(g.offsetHeight)
  THEN Px(MathRound(inputBottom(g) - safeAreaBottom(g)))
  ELSE Px(MathRound(inputTop(g) - safeAreaTop(g)))

\* part_000:689-699: the scroll amount before the clamp, half pixels.
RawScrollAmount(g) ==
  IF safeAreaHeight(g) > Px(g.offsetHeight)
  THEN Px(MathRound(safeAreaBottom(g) - inputBottom(g)))
  ELSE Px(MathRound(safeAreaTop(g) - inputTop(g)))

\* Variant of ClampApplies: the clamp of part_000:703-707 left out.
ClampApplies_Never(g) == FALSE

\* part_000:703-707.
ClampApplies(g) == inputTopAboveSafeArea(g) /\ RawScrollAmount(g) > Px(g.offsetHeight)

ClampedScrollAmount(g) == IF ClampApplies(g) THEN Px(g.offsetHeight) ELSE RawScrollAmount(g)

\* part_000:685.
NeedsAutoScroll(g) ==
  inputTopBelowSafeArea(g) \/ inputBottomBelowSafeArea(g) \/ inputTopAboveSafeArea(g)

\* Variant of ScrolledPlan: padding only when the scroll amount is not zero.
ScrolledPlan_PadsOnlyWhenScrolling(g) ==
  LET amount == IF NeedsAutoScroll(g) THEN ClampedScrollAmount(g) ELSE 0
      safeY == IF NeedsAutoScroll(g) THEN -(inputTop(g) - safeAreaTop(g)) + Px(4) ELSE 0
  IN [scrollAmount |-> amount,
      scrollTo |-> Px(g.scrollTop) - amount,
      scrollPadding |-> IF amount # 0 THEN Px(g.keyboardHeight) ELSE 0,
      inputSafeY |-> safeY]

\* part_000:684-741: the plan of a field that is not inside the safe area.
ScrolledPlan(g) ==
  LET amount == IF NeedsAutoScroll(g) THEN ClampedScrollAmount(g) ELSE 0
      safeY == IF NeedsAutoScroll(g) THEN -(inputTop(g) - safeAreaTop(g)) + Px(4) ELSE 0
  IN [scrollAmount |-> amount,
      scrollTo |-> Px(g.scrollTop) - amount,
      scrollPadding |-> Px(g.keyboardHeight),
      inputSafeY |-> safeY]

\* Variant of getScrollData: the early return of part_000:678-682 left out.
getScrollData_AlwaysScrolls(g) == ScrolledPlan(g)

\* part_000:642-742.
getScrollData(g) ==
  IF inputTopWithinSafeArea(g) /\ inputBottomWithinSafeArea(g)
  THEN ZeroScrollData
  ELSE ScrolledPlan(g)

(***************************************************************************)
(* Geometries: what ele.offsetTop / offsetHeight, getContentDimensions(),  *)
(* the keyboardHeight setting and Platform.height() can report.            *)
(***************************************************************************)
Geometry(ot, oh, ct, st, kb, ph) ==
  [offsetTop |-> ot, offsetHeight |-> oh, contentTop |-> ct, scrollTop |-> st,
   keyboardHeight |-> kb, plaformHeight |-> ph]

\* The worked example of the documentation.
ExampleGeometry == Geometry(500, 40, 0, 0, 260, 640)

Geometries ==
  { Geometry(ot, oh, ct, st, kb, ph) :
      ot \in 0..MaxOffsetTop, oh \in 0..MaxOffsetHeight, ct \in 0..MaxContentTop,
      st \in 0..MaxScrollTop, kb \in 0..MaxKeyboard, ph \in 0..MaxPlatform }
  \cup {ExampleGeometry}

NoGeometry == [none |-> TRUE]

(***************************************************************************)
(* getScrollAssistDuration (part_000:744-748).  The argument is a scroll   *)
(* amount in half pixels, the result is in thirds of a millisecond:        *)
(* (d/2 px) / (0.3 px/ms) = 10 d / 6 ms = 5 d thirds of a millisecond.     *)
(***************************************************************************)
Ms(n) == 3 * n

Min(a, b) == IF a < b THEN a ELSE b

Max(a, b) == IF a > b THEN a ELSE b

\* Variant of getScrollAssistDuration: Math.abs left out.
getScrollAssistDuration_NoAbs(distanceToScroll) ==
  LET duration == distanceToScroll * 5
  IN Min(Ms(400), Max(Ms(150), duration))

getScrollAssistDuration(distanceToScroll) ==
  LET duration == Abs(distanceToScroll) * 5
  IN Min(Ms(400), Max(Ms(150), duration))

(***************************************************************************)
(* The fields and what a pointer event can carry.                          *)
(***************************************************************************)
Fields == {"A", "B"}

MaxStep == 2
MaxPending == 2
MaxWrites == 2
MaxValue == 2
MaxDist == 125

\* pointerCoord(ev).  A touch starts at the position of the documented
\* example and ends 0, 4, 8, ... units away from it; hasPointerMoved depends
\* on the difference of the two positions only.
DownCoords == { <<100, 100>> }

UpCoords == { <<100, 100 + 4 * j>> : j \in 0..MaxStep }

NoCoord == <<>>

\* The geometries a tap can meet: field inside the safe area, field two
\* pixels too low, and the documented example (field far below).  The
\* keyboard height is configuration (part_000:231), the same for every tap.
TapGeometries ==
  { [ExampleGeometry EXCEPT !.offsetTop = 50],
    [ExampleGeometry EXCEPT !.offsetTop = 152],
    ExampleGeometry }

\* The squared distance between two pointer positions.
Distance2(startCoord, endCoord) ==
  LET deltaX == startCoord[1] - endCoord[1]
      deltaY == startCoord[2] - endCoord[2]
  IN deltaX * deltaX + deltaY * deltaY

\* hasPointerMoved of util/dom: the displacement reaches the threshold.
hasPointerMoved(threshold, startCoord, endCoord) ==
  Distance2(startCoord, endCoord) >= threshold * threshold

(***************************************************************************)
(* What a handler did, in the order it did it; moved is the squared        *)
(* displacement of a pointer-up from the recorded coordinate.              *)
(***************************************************************************)
Eff(name, a, b) == <<name, a, b>>

EffFocus == Eff("focus", 0, 0)
EffSetEnabled(on, ms) == Eff("setEnabled", on, ms)
EffBeginFocus(hide, y) == Eff("beginFocus", hide, y)
EffScrollTo(y, ms) == Eff("scrollTo", y, ms)
EffGetScrollData == Eff("getScrollData", 0, 0)
EffDomWrite == Eff("domWrite", 0, 0)
EffAddScrollPadding(p) == Eff("addScrollPadding", p, 0)
EffClearScrollPaddingFocusOut == Eff("clearScrollPaddingFocusOut", 0, 0)
EffHideFocus(hide) == Eff("hideFocus", hide, 0)
EffClearTextInput == Eff("clearTextInput", 0, 0)
EffInitFocus(input) == Eff("initFocus", input, 0)
EffMenuToggle == Eff("menu.toggle", 0, 0)
EffRegisterListener == Eff("registerListener", 0, 0)
EffUnrefBlur == Eff("unrefBlur", 0, 0)
EffBlur == Eff("blur", 0, 0)
EffNativeAction(m) == Eff("IonicNativeUI.action", m.actionName, m.call)
EffOnNavPop == Eff("IonicNativeUI.onNavPop", 0, 0)
EffNavPop == Eff("getRootNav.pop", 0, 0)

Names(effects) == { effects[i][1] : i \in 1..Len(effects) }

\* A touchend target: its tagName, and whether its classList contains
\* 'input-cover' (part_000:375).
NoTarget == [tagName |-> "", inputCover |-> FALSE]

NoHandler ==
  [op |-> "none", f |-> "A", enabled |-> TRUE, focused |-> FALSE, moved |-> 0,
   ret |-> FALSE, prevented |-> FALSE, stopped |-> FALSE, inited |-> FALSE,
   threw |-> FALSE, effects |-> <<>>, input |-> 0, target |-> NoTarget]

\* The transform values the component writes (part_000:573, 784).
Scale0 == <<"scale", 0>>
Translate3d(x, y, z) == <<"translate3d", x, y, z>>

\* The inline style of a field nobody has touched, and no clone of it.
NoStyle == [clones |-> 0, transform |-> <<>>, opacity |-> "", pointerEvents |-> ""]

\* cloneInputComponent (part_000:750-785) on the DOM d: one more
\* .cloned-input next to the component of f, the component no longer takes
\* pointer events, the native element is scaled to nothing.
cloneInputComponent(d, f) ==
  [d EXCEPT ![f] = [@ EXCEPT !.clones = @ + 1, !.pointerEvents = "none",
                             !.transform = Scale0]]

\* removeClone (part_000:787-799): every .cloned-input under the parent of
\* the component of f goes, the style of f is reset.
removeClone(d, f) ==
  [g \in Fields |->
     IF g = f THEN NoStyle
     ELSE IF sharedParent THEN [d[g] EXCEPT !.clones = 0]
     ELSE d[g]]

\* TextInput.setFocus (part_000:305-311): the native focus() calls it makes.
\* focus() on the element that has the focus already raises no focus event.
setFocus(f) == IF isFocus[f] THEN <<EffFocus>> ELSE <<>>

\* beginFocus (part_000:555-583).  Its body reads this._native inside a plain
\* nested function, where this is not the TextInput: past the relocated
\* guard the call ends in a TypeError, after relocated was assigned.
beginFocus(f, shouldFocus) ==
  IF relocated[f] = shouldFocus
  THEN [relocated |-> relocated[f], threw |-> FALSE]
  ELSE [relocated |-> shouldFocus, threw |-> TRUE]

\* What one run of a handler leaves behind.
Outcome(en, timer, rel, sd, pending, threw, effects) ==
  [appEnabled |-> en, lockTimer |-> timer, relocated |-> rel, scrollData |-> sd,
   scrolls |-> pending, threw |-> threw, effects |-> effects]

\* Variant of AssistScroll: setEnabled(false) called without a duration.
AssistScroll_NoTimeout(f, sd) ==
  LET scrollDuration == getScrollAssistDuration(sd.scrollAmount)
      lock == <<EffSetEnabled(FALSE, 0)>>
      bf == IF clone THEN beginFocus(f, TRUE)
            ELSE [relocated |-> relocated[f], threw |-> FALSE]
      hide == IF clone THEN <<EffBeginFocus(TRUE, sd.inputSafeY)>> ELSE <<>>
  IN IF bf.threw
     THEN Outcome(FALSE, 0, bf.relocated, sd, scrolls[f], TRUE, lock \o hide)
     ELSE Outcome(FALSE, 0, bf.relocated, sd,
                  Append(scrolls[f], [y |-> sd.scrollTo, ms |-> scrollDuration]), FALSE,
                  lock \o hide \o setFocus(f) \o <<EffScrollTo(sd.scrollTo, scrollDuration)>>)

\* initFocus of the scroll-assist closure, part_000:524-552: the plan needs
\* a scroll.
AssistScroll(f, sd) ==
  LET scrollDuration == getScrollAssistDuration(sd.scrollAmount)
      lock == <<EffSetEnabled(FALSE, scrollDuration)>>
      bf == IF clone THEN beginFocus(f, TRUE)
            ELSE [relocated |-> relocated[f], threw |-> FALSE]
      hide == IF clone THEN <<EffBeginFocus(TRUE, sd.inputSafeY)>> ELSE <<>>
  IN IF bf.threw
     THEN Outcome(FALSE, scrollDuration, bf.relocated, sd, scrolls[f], TRUE, lock \o hide)
     ELSE Outcome(FALSE, scrollDuration, bf.relocated, sd,
                  Append(scrolls[f], [y |-> sd.scrollTo, ms |-> scrollDuration]), FALSE,
                  lock \o hide \o setFocus(f) \o <<EffScrollTo(sd.scrollTo, scrollDuration)>>)

\* Variant of initFocus: the lock is closed after the scroll was started.
initFocus_LockAfterScroll(f, g) ==
  IF ~content
  THEN Outcome(appEnabled, lockTimer, relocated[f], scrollData[f], scrolls[f], FALSE, setFocus(f))
  ELSE LET sd == getScrollData(g)
       IN IF Abs(sd.scrollAmount) < Px(4)
          THEN Outcome(TRUE, 0, relocated[f], sd, scrolls[f], FALSE,
                       <<EffGetScrollData>> \o setFocus(f) \o <<EffSetEnabled(TRUE, 0)>>)
          ELSE LET o == AssistScroll(f, sd)
               IN [o EXCEPT !.effects = <<EffGetScrollData>> \o Tail(@) \o <<Head(@)>>]

\* initFocus of the scroll-assist closure, part_000:495-553, on geometry g.
initFocus(f, g) ==
  IF ~content
  THEN Outcome(appEnabled, lockTimer, relocated[f], scrollData[f], scrolls[f], FALSE, setFocus(f))
  ELSE LET sd == getScrollData(g)
       IN IF Abs(sd.scrollAmount) < Px(4)
          THEN Outcome(TRUE, 0, relocated[f], sd, scrolls[f], FALSE,
                       <<EffGetScrollData>> \o setFocus(f) \o <<EffSetEnabled(TRUE, 0)>>)
          ELSE LET o == AssistScroll(f, sd)
               IN [o EXCEPT !.effects = <<EffGetScrollData>> \o @]

\* The plan of geometry g starts a scroll (part_000:514).
StartsScroll(f, g) == content /\ Abs(getScrollData(g).scrollAmount) >= Px(4)

(***************************************************************************)
(* Spec: the fields of one page, sharing the global lock.                  *)
(***************************************************************************)
\* A text field after ngOnInit: clearOnEdit was never bound, nothing typed.
PlainText ==
  [type |-> "text", bound |-> "undefined", clearOnEdit |-> "undefined", inited |-> TRUE,
   value |-> <<>>, didBlurAfterEdit |-> "undefined", blurValue |-> <<>>, keydowns |-> 0]

NoToggle == [none |-> TRUE]
\* Form (src/util/form.ts:11-13): _focused = null, _inputs = [].
NoInput == 0
NoForm == [inputs |-> <<>>, focused |-> NoInput]
\* NativeSync (part_002:15) before its constructor, window.IonicNativeUI
\* not defined.
NoSync == [actionQueue |-> <<>>, bridge |-> FALSE, ready |-> "none", onNavPop |-> FALSE,
           handed |-> <<>>, calls |-> 0]

\* scrollAssist on; scrollPadding and blurOnFocus switched off in the
\* configuration (part_000:234-252); every field in an item of its own.
DefaultConfig ==
  /\ useAssist = TRUE
  /\ usePadding = FALSE
  /\ blurOnFocus = FALSE
  /\ inputBlurring = FALSE
  /\ sharedParent = FALSE

\* No touchend listener registered, unrefBlur declared and not assigned
\* (part_000:365).
NoListener == [listeners |-> 0, unref |-> "undefined"]

IdleAssist ==
  /\ appEnabled = TRUE
  /\ lockTimer = 0
  /\ coord = [f \in Fields |-> NoCoord]
  /\ down = [f \in Fields |-> FALSE]
  /\ isFocus = [f \in Fields |-> FALSE]
  /\ relocated = [f \in Fields |-> FALSE]
  /\ scrollData = [f \in Fields |-> NoPlan]
  /\ scrolls = [f \in Fields |-> <<>>]

IdleDom ==
  /\ dom = [f \in Fields |-> NoStyle]
  /\ writes = <<>>
  /\ scrolling = FALSE
  /\ touch = [f \in Fields |-> NoListener]

Idle ==
  /\ IdleAssist
  /\ IdleDom
  /\ edit = [f \in Fields |-> PlainText]
  /\ toggle = NoToggle
  /\ form = NoForm
  /\ sync = NoSync
  /\ last = NoHandler

NoDist == <<>>
NoDur == <<>>

Init ==
  /\ geo = NoGeometry
  /\ plan = NoPlan
  /\ dist = NoDist
  /\ dur = NoDur
  /\ DefaultConfig
  /\ clone \in BOOLEAN
  /\ content \in BOOLEAN
  /\ Idle

Handler(op, f) ==
  [NoHandler EXCEPT !.op = op, !.f = f, !.enabled = appEnabled, !.focused = isFocus[f]]

\* Variant of pointerDown: the isEnabled() test left out.
pointerDown_IgnoresLock(f) ==
  /\ useAssist
  /\ ~down[f]
  /\ \E c \in DownCoords :
       /\ coord' = [coord EXCEPT ![f] = c]
       /\ down' = [down EXCEPT ![f] = TRUE]
       /\ last' = [Handler("pointerDown", f) EXCEPT !.ret = TRUE]
  /\ UNCHANGED <<geomVars, durVars, configVars, domVars, sideVars, lockVars, isFocus, relocated, scrollData, scrolls>>

\* pointerDown (part_000:464-470), registered by _enableScrollAssist.
pointerDown(f) ==
  /\ useAssist
  /\ ~down[f]
  /\ \E c \in DownCoords :
       IF appEnabled
       THEN /\ coord' = [coord EXCEPT ![f] = c]
            /\ down' = [down EXCEPT ![f] = TRUE]
            /\ last' = [Handler("pointerDown", f) EXCEPT !.ret = TRUE]
       ELSE /\ UNCHANGED <<coord, down>>
            /\ last' = [Handler("pointerDown", f) EXCEPT !.ret = FALSE]
  /\ UNCHANGED <<geomVars, durVars, configVars, domVars, sideVars, lockVars, isFocus, relocated, scrollData, scrolls>>

\* Variant of ShouldInitFocus: the isFocus() test left out.
ShouldInitFocus_IgnoresFocus(f, endCoord) == ~hasPointerMoved(8, coord[f], endCoord)

\* part_000:485: the pointer-up is a tap that has to start the focus.
ShouldInitFocus(f, endCoord) == ~hasPointerMoved(8, coord[f], endCoord) /\ ~isFocus[f]

\* pointerUp (part_000:472-493).  The geometry is what the DOM reports when
\* initFocus reads it (part_000:510-513).
pointerUp(f) ==
  /\ useAssist
  /\ down[f]
  /\ down' = [down EXCEPT ![f] = FALSE]
  /\ \E endCoord \in UpCoords :
       IF ~appEnabled
       THEN /\ last' = [Handler("pointerUp", f) EXCEPT !.prevented = TRUE, !.stopped = TRUE]
            /\ UNCHANGED <<lockVars, coord, relocated, scrollData, scrolls>>
       ELSE IF ShouldInitFocus(f, endCoord)
       THEN \E g \in TapGeometries :
            LET o == initFocus(f, g)
            IN /\ StartsScroll(f, g) => Len(scrolls[f]) < MaxPending
               /\ appEnabled' = o.appEnabled
               /\ lockTimer' = o.lockTimer
               /\ relocated' = [relocated EXCEPT ![f] = o.relocated]
               /\ scrollData' = [scrollData EXCEPT ![f] = o.scrollData]
               /\ scrolls' = [scrolls EXCEPT ![f] = o.scrolls]
               /\ coord' = IF o.threw THEN coord ELSE [coord EXCEPT ![f] = NoCoord]
               /\ last' = [Handler("pointerUp", f) EXCEPT
                             !.moved = Distance2(coord[f], endCoord),
                             !.prevented = TRUE, !.stopped = TRUE,
                             !.inited = TRUE, !.threw = o.threw, !.effects = o.effects]
       ELSE /\ coord' = [coord EXCEPT ![f] = NoCoord]
            /\ last' = [Handler("pointerUp", f) EXCEPT
                          !.moved = Distance2(coord[f], endCoord)]
            /\ UNCHANGED <<lockVars, relocated, scrollData, scrolls>>
  /\ UNCHANGED <<geomVars, durVars, configVars, domVars, sideVars, isFocus>>

\* The completion callback of content.scrollTo (part_000:542-552).
scrollCompleted(f) ==
  /\ scrolls[f] # <<>>
  /\ scrolls' = [scrolls EXCEPT ![f] = Tail(@)]
  /\ LET bf == IF clone THEN beginFocus(f, FALSE)
               ELSE [relocated |-> relocated[f], threw |-> FALSE]
         show == IF clone THEN <<EffBeginFocus(FALSE, 0)>> ELSE <<>>
     IN /\ relocated' = [relocated EXCEPT ![f] = bf.relocated]
        /\ IF bf.threw
           THEN /\ UNCHANGED lockVars
                /\ last' = [Handler("scrollCompleted", f) EXCEPT !.threw = TRUE, !.effects = show]
           ELSE /\ appEnabled' = TRUE
                /\ lockTimer' = 0
                /\ last' = [Handler("scrollCompleted", f) EXCEPT
                              !.effects = show \o <<EffSetEnabled(TRUE, 0)>>]
  /\ UNCHANGED <<geomVars, durVars, configVars, domVars, sideVars, coord, down, isFocus, scrollData>>

\* The timeout handed to app.setEnabled(false, scrollDuration) expires.
lockTimeout ==
  /\ ~appEnabled
  /\ lockTimer # 0
  /\ appEnabled' = TRUE
  /\ lockTimer' = 0
  /\ last' = [NoHandler EXCEPT !.op = "lockTimeout", !.enabled = FALSE]
  /\ UNCHANGED <<geomVars, durVars, configVars, domVars, sideVars, fieldVars>>

\* BaseInput.hasValue() on the field record e.
hasValue(e) == e.value # <<>>

\* clearTextInput (part_000:340-342).
clearTextInput(e) == [e EXCEPT !.value = <<>>]

\* _inputFocusChanged (part_000:326-335).
inputFocusChanged(e, hasFocus) ==
  IF e.clearOnEdit = "true" /\ ~hasFocus /\ hasValue(e)
  THEN [e EXCEPT !.didBlurAfterEdit = "true"]
  ELSE e

\* Variant of checkClearOnEdit: the flag is not reset.
checkClearOnEdit_KeepsFlag(e) ==
  IF e.clearOnEdit # "true" THEN e
  ELSE IF e.didBlurAfterEdit = "true" /\ hasValue(e) THEN clearTextInput(e) ELSE e

\* checkClearOnEdit (part_000:348-361).
checkClearOnEdit(e) ==
  IF e.clearOnEdit # "true" THEN e
  ELSE [(IF e.didBlurAfterEdit = "true" /\ hasValue(e) THEN clearTextInput(e) ELSE e)
          EXCEPT !.didBlurAfterEdit = "false"]

\* hideFocus of _enableBlurOnScrolling (part_000:430-442) on the DOM d.
hideFocus(d, f, shouldHideFocus) ==
  IF shouldHideFocus
  THEN [cloneInputComponent(d, f) EXCEPT ![f].transform = Scale0]
  ELSE removeClone(d, f)

\* The ionFocus subscriber of _enableScrollPadding (part_000:392-401), after
\* its dom.write: it reads this._scrollData, which is undefined until the
\* scroll-assist initFocus has stored a plan (part_000:511).
scrollPaddingOnFocus(f) ==
  IF scrollData[f] = NoPlan
  THEN [threw |-> TRUE, effects |-> <<EffDomWrite>>]
  ELSE [threw |-> FALSE,
        effects |-> <<EffDomWrite, EffAddScrollPadding(scrollData[f].scrollPadding),
                      EffClearScrollPaddingFocusOut>>]

\* The ionFocus subscriber of _enableInputBlurring (part_000:366-383):
\* one more touchend listener on the document, unrefBlur is its remover.
registerListener(t) == [listeners |-> t.listeners + 1, unref |-> "live"]

\* The ionBlur subscriber of _enableInputBlurring (part_000:384-386):
\* unrefBlur && unrefBlur().  A remover that ran already removes nothing.
unrefBlur(t) ==
  IF t.unref = "live" THEN [listeners |-> t.listeners - 1, unref |-> "spent"] ELSE t

\* The native element receives the focus from the browser (a tap's focus()
\* call, the autofocus path of ngOnInit, part_000:265-280, or keyboard
\* navigation): the template binding (focus)="_fireFocus()" runs and emits
\* ionFocus to its subscribers in the order in which the constructor
\* subscribed them: _enableScrollPadding (part_000:240), then
\* _enableInputBlurring (part_000:245).  An exception of a subscriber leaves
\* the emit, and the subscribers after it do not run.  The element that had
\* the focus has had its blur event before.
fireFocus(f) ==
  /\ edit[f].inited
  /\ \A g \in Fields : ~isFocus[g]
  /\ isFocus' = [isFocus EXCEPT ![f] = TRUE]
  /\ LET pad == IF usePadding /\ content THEN scrollPaddingOnFocus(f)
                ELSE [threw |-> FALSE, effects |-> <<>>]
         registers == inputBlurring /\ ~pad.threw
     IN /\ IF usePadding /\ content
           THEN /\ Len(writes) < MaxWrites
                /\ writes' = Append(writes, [f |-> f, op |-> "scrollTop"])
           ELSE writes' = writes
        /\ touch' = IF registers THEN [touch EXCEPT ![f] = registerListener(@)] ELSE touch
        /\ last' = [NoHandler EXCEPT
                      !.op = "fireFocus", !.f = f, !.threw = pad.threw,
                      !.effects = pad.effects \o
                                  (IF registers THEN <<EffRegisterListener>> ELSE <<>>)]
  /\ UNCHANGED <<geomVars, durVars, configVars, lockVars, sideVars, dom, scrolling>>
  /\ UNCHANGED <<coord, down, relocated, scrollData, scrolls>>

\* _fireBlur of field f, inside the handler h that caused it: it reaches
\* _inputFocusChanged(false) and emits ionBlur to the subscribers of
\* _enableInputBlurring (part_000:384) and _enableBlurOnScrolling
\* (part_000:418).
blurEvent(f, h) ==
  /\ isFocus' = [isFocus EXCEPT ![f] = FALSE]
  /\ edit' = [edit EXCEPT ![f] = [inputFocusChanged(@, FALSE) EXCEPT
                                    !.blurValue = edit[f].value, !.keydowns = 0]]
  /\ touch' = IF inputBlurring THEN [touch EXCEPT ![f] = unrefBlur(@)] ELSE touch
  /\ dom' = IF blurOnFocus /\ content THEN hideFocus(dom, f, FALSE) ELSE dom
  /\ last' = [h EXCEPT !.effects =
                @ \o (IF inputBlurring /\ touch[f].unref # "undefined"
                      THEN <<EffUnrefBlur>> ELSE <<>>)
                  \o (IF blurOnFocus /\ content THEN <<EffHideFocus(FALSE)>> ELSE <<>>)]
  /\ UNCHANGED <<geomVars, durVars, configVars, lockVars, toggle, form, sync, writes, scrolling>>
  /\ UNCHANGED <<coord, down, relocated, scrollData, scrolls>>

\* The native element loses the focus: (blur)="_fireBlur()".
fireBlur(f) ==
  /\ isFocus[f]
  /\ blurEvent(f, [NoHandler EXCEPT !.op = "fireBlur", !.f = f])

Next ==
  \/ \E f \in Fields : pointerDown(f)
  \/ \E f \in Fields : pointerUp(f)
  \/ \E f \in Fields : scrollCompleted(f)
  \/ lockTimeout
  \/ \E f \in Fields : fireFocus(f)
  \/ \E f \in Fields : fireBlur(f)

Spec == Init /\ [][Next]_vars

\* The timeout that app.setEnabled(false, scrollDuration) arms is a timer of
\* the event loop: once armed it fires.  Nothing is assumed of the scroll's
\* completion callback.
SpecLive == Spec /\ WF_vars(lockTimeout)

(***************************************************************************)
(* SpecGeom: getScrollData applied to every geometry of the bounded set.   *)
(***************************************************************************)
InitGeom ==
  /\ geo \in Geometries
  /\ plan = NoPlan
  /\ dist = NoDist
  /\ dur = NoDur
  /\ DefaultConfig
  /\ clone = FALSE
  /\ content = TRUE
  /\ Idle

ComputePlan ==
  /\ plan = NoPlan
  /\ geo # NoGeometry
  /\ plan' = getScrollData(geo)
  /\ UNCHANGED <<geo, durVars, configVars, domVars, sideVars, lockVars, fieldVars, last>>

NextGeom == ComputePlan

SpecGeom == InitGeom /\ [][NextGeom]_vars

(***************************************************************************)
(* SpecDur: getScrollAssistDuration applied to two distances, and the      *)
(* scroll of part_000:524-552 started for the first of them.               *)
(***************************************************************************)
Distances == { Px(k) : k \in -MaxDist..MaxDist }

InitDur ==
  /\ geo = NoGeometry
  /\ plan = NoPlan
  /\ dist \in Distances \X Distances
  /\ dur = NoDur
  /\ DefaultConfig
  /\ clone \in BOOLEAN
  /\ content = TRUE
  /\ Idle

ComputeDurations ==
  /\ dur = NoDur
  /\ dist # NoDist
  /\ dur' = <<getScrollAssistDuration(dist[1]), getScrollAssistDuration(dist[2])>>
  /\ UNCHANGED <<geomVars, dist, configVars, domVars, sideVars, lockVars, fieldVars, last>>

\* A plan whose scrollAmount is the first distance reaches part_000:524.
StartAssistScroll ==
  /\ dur # NoDur
  /\ last.op = "none"
  /\ Abs(dist[1]) >= Px(4)
  /\ LET sd == [scrollAmount |-> dist[1], scrollTo |-> -dist[1],
                scrollPadding |-> 0, inputSafeY |-> Px(4)]
         o == AssistScroll("A", sd)
     IN /\ appEnabled' = o.appEnabled
        /\ lockTimer' = o.lockTimer
        /\ relocated' = [relocated EXCEPT !["A"] = o.relocated]
        /\ scrollData' = [scrollData EXCEPT !["A"] = o.scrollData]
        /\ scrolls' = [scrolls EXCEPT !["A"] = o.scrolls]
        /\ last' = [Handler("initFocus", "A") EXCEPT
                      !.inited = TRUE, !.threw = o.threw, !.effects = o.effects]
  /\ UNCHANGED <<geomVars, durVars, configVars, domVars, sideVars, coord, down, isFocus>>

NextDur == ComputeDurations \/ StartAssistScroll

SpecDur == InitDur /\ [][NextDur]_vars

(***************************************************************************)
(* SpecPad: one field of a page, with every combination of scrollAssist,   *)
(* scrollPadding and Content, and the DomController's frame.               *)
(***************************************************************************)
\* config keyboardHeight (part_000:231), whole pixels.
KeyboardHeight == ExampleGeometry.keyboardHeight

InitPad ==
  /\ geo = NoGeometry
  /\ plan = NoPlan
  /\ dist = NoDist
  /\ dur = NoDur
  /\ useAssist \in BOOLEAN
  /\ usePadding \in BOOLEAN
  /\ blurOnFocus = FALSE
  /\ inputBlurring = FALSE
  /\ sharedParent = FALSE
  /\ clone \in BOOLEAN
  /\ content \in BOOLEAN
  /\ Idle

\* One queued write callback runs on the DOM d.
RunWrite(d, w) ==
  IF w.op = "scrollTop" THEN d ELSE hideFocus(d, w.f, w.op = "hide")

RECURSIVE RunWrites(_, _)
RunWrites(d, ws) ==
  IF ws = <<>> THEN d ELSE RunWrites(RunWrite(d, Head(ws)), Tail(ws))

\* The DomController's frame: the queued write callbacks run, in the order
\* in which they were queued.
flushWrites ==
  /\ writes # <<>>
  /\ dom' = RunWrites(dom, writes)
  /\ writes' = <<>>
  /\ last' = [NoHandler EXCEPT !.op = "flushWrites"]
  /\ UNCHANGED <<geomVars, durVars, configVars, lockVars, fieldVars, sideVars, scrolling, touch>>

NextPad ==
  \/ pointerDown("A")
  \/ pointerUp("A")
  \/ scrollCompleted("A")
  \/ lockTimeout
  \/ fireFocus("A")
  \/ fireBlur("A")
  \/ flushWrites

SpecPad == InitPad /\ [][NextPad]_vars

(***************************************************************************)
(* SpecBlur: the fields of a page with blurOnFocus, while the user scrolls *)
(* the Content.                                                            *)
(***************************************************************************)
InitBlur ==
  /\ geo = NoGeometry
  /\ plan = NoPlan
  /\ dist = NoDist
  /\ dur = NoDur
  /\ useAssist = FALSE
  /\ usePadding = FALSE
  /\ blurOnFocus = TRUE
  /\ inputBlurring = FALSE
  /\ sharedParent \in BOOLEAN
  /\ clone = FALSE
  /\ content = TRUE
  /\ Idle

\* scrollHideFocus (part_000:420-428) of field f: the write it queues.
scrollHideFocus(f, shouldHideFocus) ==
  IF isFocus[f]
  THEN <<[f |-> f, op |-> IF shouldHideFocus THEN "hide" ELSE "show"]>>
  ELSE <<>>

\* The subscribers of a scroll event of the Content run field by field.
ScrollSubscribers(shouldHideFocus) ==
  scrollHideFocus("A", shouldHideFocus) \o scrollHideFocus("B", shouldHideFocus)

\* content.ionScrollStart (part_000:410-412).
ionScrollStart ==
  /\ blurOnFocus /\ content
  /\ ~scrolling
  /\ scrolling' = TRUE
  /\ writes' = writes \o ScrollSubscribers(TRUE)
  /\ Len(writes') <= MaxWrites
  /\ last' = [NoHandler EXCEPT !.op = "ionScrollStart"]
  /\ UNCHANGED <<geomVars, durVars, configVars, lockVars, fieldVars, sideVars, dom, touch>>

\* content.ionScrollEnd (part_000:414-416).
ionScrollEnd ==
  /\ blurOnFocus /\ content
  /\ scrolling
  /\ scrolling' = FALSE
  /\ writes' = writes \o ScrollSubscribers(FALSE)
  /\ Len(writes') <= MaxWrites
  /\ last' = [NoHandler EXCEPT !.op = "ionScrollEnd"]
  /\ UNCHANGED <<geomVars, durVars, configVars, lockVars, fieldVars, sideVars, dom, touch>>

NextBlur ==
  \/ \E f \in Fields : fireFocus(f)
  \/ \E f \in Fields : fireBlur(f)
  \/ ionScrollStart
  \/ ionScrollEnd
  \/ flushWrites

SpecBlur == InitBlur /\ [][NextBlur]_vars

(***************************************************************************)
(* SpecEdit: clear-on-edit of one field, from its construction on.         *)
(***************************************************************************)
Types == {"text", "password"}

\* What the clearOnEdit setter (part_000:173-175) has stored when the
\* template binds the input, "undefined" when the template does not.
Bindings == {"undefined", "true", "false"}

InitEdit ==
  /\ geo = NoGeometry
  /\ plan = NoPlan
  /\ dist = NoDist
  /\ dur = NoDur
  /\ DefaultConfig
  /\ clone = FALSE
  /\ content = FALSE
  /\ IdleAssist
  /\ IdleDom
  /\ \E t \in Types, b \in Bindings :
       edit = [f \in Fields |->
                 IF f = "A"
                 THEN [PlainText EXCEPT !.type = t, !.bound = b, !.clearOnEdit = b,
                                        !.inited = FALSE]
                 ELSE PlainText]
  /\ toggle = NoToggle
  /\ form = NoForm
  /\ sync = NoSync
  /\ last = NoHandler

\* ngOnInit (part_000:258-262).
ngOnInit(f) ==
  /\ ~edit[f].inited
  /\ edit' = [edit EXCEPT ![f] =
                [@ EXCEPT !.inited = TRUE,
                          !.clearOnEdit = IF @ # "false" /\ edit[f].type = "password"
                                          THEN "true" ELSE @]]
  /\ last' = [NoHandler EXCEPT !.op = "ngOnInit", !.f = f]
  /\ UNCHANGED <<geomVars, durVars, configVars, lockVars, fieldVars, domVars, toggle, form, sync>>

\* onKeydown (part_000:317-321) on the field that has the focus.
onKeydown(f) ==
  /\ edit[f].inited
  /\ isFocus[f]
  /\ LET e == IF edit[f].clearOnEdit = "true" THEN checkClearOnEdit(edit[f]) ELSE edit[f]
     IN /\ edit' = [edit EXCEPT ![f] = [e EXCEPT !.keydowns = Min(@ + 1, 2)]]
        /\ last' = [NoHandler EXCEPT !.op = "onKeydown", !.f = f,
                       !.effects = IF e.value # edit[f].value
                                   THEN <<EffClearTextInput>> ELSE <<>>]
  /\ UNCHANGED <<geomVars, durVars, configVars, lockVars, fieldVars, domVars, toggle, form, sync>>

\* [(ngModel)]="value" (part_000:88): the user's input reaches the value.
ngModelChange(f) ==
  /\ edit[f].inited
  /\ isFocus[f]
  /\ Len(edit[f].value) < MaxValue
  /\ edit' = [edit EXCEPT ![f].value = Append(@, "x")]
  /\ last' = [NoHandler EXCEPT !.op = "ngModelChange", !.f = f]
  /\ UNCHANGED <<geomVars, durVars, configVars, lockVars, fieldVars, domVars, toggle, form, sync>>

\* The clear button (part_000:107): (click)="clearTextInput()".
clearButton(f) ==
  /\ edit[f].inited
  /\ hasValue(edit[f])
  /\ edit' = [edit EXCEPT ![f] = clearTextInput(@)]
  /\ last' = [NoHandler EXCEPT !.op = "clearButton", !.f = f,
                               !.effects = <<EffClearTextInput>>]
  /\ UNCHANGED <<geomVars, durVars, configVars, lockVars, fieldVars, domVars, toggle, form, sync>>

NextEdit ==
  \/ ngOnInit("A")
  \/ fireFocus("A")
  \/ fireBlur("A")
  \/ onKeydown("A")
  \/ ngModelChange("A")
  \/ clearButton("A")

SpecEdit == InitEdit /\ [][NextEdit]_vars

(***************************************************************************)
(* SpecMenu: one MenuToggle (src/unnamed/part_001), the menu that          *)
(* MenuController.get(menuToggle) finds for it and the view it is in.      *)
(***************************************************************************)
NoMenu == [none |-> TRUE]
Menus == [canOpen : BOOLEAN, persistent : BOOLEAN]

\* The constructor (part_001:111-122): navbar and viewCtrl are optional.
Toggles ==
  { [inNavbar |-> n, viewCtrl |-> v, isFirst |-> first, menu |-> m, hidden |-> FALSE] :
      n \in BOOLEAN, v \in BOOLEAN, first \in BOOLEAN, m \in Menus \cup {NoMenu} }

InitMenu ==
  /\ geo = NoGeometry
  /\ plan = NoPlan
  /\ dist = NoDist
  /\ dur = NoDur
  /\ DefaultConfig
  /\ clone = FALSE
  /\ content = FALSE
  /\ IdleAssist
  /\ IdleDom
  /\ edit = [f \in Fields |-> PlainText]
  /\ toggle \in { t \in Toggles : t.viewCtrl \/ ~t.isFirst }
  /\ form = NoForm
  /\ sync = NoSync
  /\ last = NoHandler

\* Variant of isHidden: the persistent test left out.
isHidden_RootOnly(t) ==
  IF t.inNavbar /\ t.viewCtrl
  THEN IF t.menu = NoMenu \/ ~t.menu.canOpen THEN TRUE
       ELSE IF t.isFirst THEN FALSE
       ELSE TRUE
  ELSE FALSE

\* MenuToggle.isHidden (part_001:147-166).
isHidden(t) ==
  IF t.inNavbar /\ t.viewCtrl
  THEN IF t.menu = NoMenu \/ ~t.menu.canOpen THEN TRUE
       ELSE IF t.isFirst THEN FALSE
       ELSE ~t.menu.persistent
  ELSE FALSE

\* Change detection evaluates the host binding [hidden]="isHidden"
\* (part_001:90-92).
readHidden ==
  /\ toggle' = [toggle EXCEPT !.hidden = isHidden(toggle)]
  /\ last' = [NoHandler EXCEPT !.op = "isHidden", !.ret = isHidden(toggle)]
  /\ UNCHANGED <<geomVars, durVars, configVars, lockVars, fieldVars, domVars, edit, form, sync>>

\* The click handler toggle() (part_001:138-142): menu && menu.toggle(), on
\* a button that is not hidden.
toggleClick ==
  /\ ~toggle.hidden
  /\ toggle' = toggle
  /\ last' = [NoHandler EXCEPT !.op = "toggle",
                 !.effects = IF toggle.menu = NoMenu THEN <<>> ELSE <<EffMenuToggle>>]
  /\ UNCHANGED <<geomVars, durVars, configVars, lockVars, fieldVars, domVars, edit, form, sync>>

\* The navigation stack changes under the view: it becomes, or stops
\* being, the first view.
navChange ==
  /\ toggle.viewCtrl
  /\ toggle' = [toggle EXCEPT !.isFirst = ~@]
  /\ last' = [NoHandler EXCEPT !.op = "navChange"]
  /\ UNCHANGED <<geomVars, durVars, configVars, lockVars, fieldVars, domVars, edit, form, sync>>

\* The menu is enabled or disabled: menu._canOpen() changes.
menuChange ==
  /\ toggle.menu # NoMenu
  /\ toggle' = [toggle EXCEPT !.menu.canOpen = ~@]
  /\ last' = [NoHandler EXCEPT !.op = "menuChange"]
  /\ UNCHANGED <<geomVars, durVars, configVars, lockVars, fieldVars, domVars, edit, form, sync>>

NextMenu == readHidden \/ toggleClick \/ navChange \/ menuChange

SpecMenu == InitMenu /\ [][NextMenu]_vars

(***************************************************************************)
(* SpecForm: the Form registry (src/util/form.ts) and the inputs of a      *)
(* page, each registered when it is constructed and deregistered when it   *)
(* is destroyed.                                                           *)
(***************************************************************************)
MaxInputs == 3
Inputs == 1..MaxInputs

InitForm ==
  /\ geo = NoGeometry
  /\ plan = NoPlan
  /\ dist = NoDist
  /\ dur = NoDur
  /\ DefaultConfig
  /\ clone = FALSE
  /\ content = FALSE
  /\ Idle

\* Array.indexOf, zero-based, -1 when x is not in the array.
indexOf(xs, x) ==
  IF \E i \in 1..Len(xs) : xs[i] = x
  THEN (CHOOSE i \in 1..Len(xs) : xs[i] = x /\ \A j \in 1..(i - 1) : xs[j] # x) - 1
  ELSE -1

\* Array element at a zero-based index.
At(xs, index) == xs[index + 1]

\* removeArrayItem of util/util: the first occurrence of x leaves the array.
removeArrayItem(xs, x) ==
  LET index == indexOf(xs, x)
  IN IF index = -1 THEN xs
     ELSE [i \in 1..(Len(xs) - 1) |-> IF i <= index THEN xs[i] ELSE xs[i + 1]]

FormUnchanged ==
  UNCHANGED <<geomVars, durVars, configVars, lockVars, fieldVars, domVars, edit, toggle, sync>>

\* Form.register (form.ts:15-17), called once by the constructor of an input.
register(x) ==
  /\ indexOf(form.inputs, x) = -1
  /\ form' = [form EXCEPT !.inputs = Append(@, x)]
  /\ last' = [NoHandler EXCEPT !.op = "register", !.input = x]
  /\ FormUnchanged

\* Variant of unsetFocused: the comparison with _focused left out.
unsetFocused_Always(fm, x) == [fm EXCEPT !.focused = NoInput]

\* Form.unsetAsFocused (form.ts:28-32) on the registry fm.
unsetFocused(fm, x) == IF x = fm.focused THEN [fm EXCEPT !.focused = NoInput] ELSE fm

\* Form.deregister (form.ts:19-22), called when an input is destroyed.
deregister(x) ==
  /\ indexOf(form.inputs, x) # -1
  /\ form' = unsetFocused([form EXCEPT !.inputs = removeArrayItem(@, x)], x)
  /\ last' = [NoHandler EXCEPT !.op = "deregister", !.input = x,
                               !.focused = (x = form.focused)]
  /\ FormUnchanged

\* Form.setAsFocused (form.ts:24-26), called when a registered input takes
\* the focus.
setAsFocused(x) ==
  /\ indexOf(form.inputs, x) # -1
  /\ form' = [form EXCEPT !.focused = x]
  /\ last' = [NoHandler EXCEPT !.op = "setAsFocused", !.input = x]
  /\ FormUnchanged

\* Form.unsetAsFocused (form.ts:28-32).
unsetAsFocused(x) ==
  /\ form' = unsetFocused(form, x)
  /\ last' = [NoHandler EXCEPT !.op = "unsetAsFocused", !.input = x,
                               !.focused = (x = form.focused)]
  /\ FormUnchanged

\* Variant of tabFocusCalls: without the second half of tabFocus.
tabFocusCalls_NextOnly(fm, currentInput) ==
  LET inputs == fm.inputs
      index == indexOf(inputs, currentInput) + 1
  IN IF index > 0 /\ index < Len(inputs) /\ At(inputs, index) # fm.focused
     THEN <<EffInitFocus(At(inputs, index))>>
     ELSE <<>>

\* Form.tabFocus (form.ts:37-56): the initFocus() calls it makes.
tabFocusCalls(fm, currentInput) ==
  LET inputs == fm.inputs
      index == indexOf(inputs, currentInput) + 1
      index2 == indexOf(inputs, fm.focused)
  IN IF index > 0 /\ index < Len(inputs) /\ At(inputs, index) # fm.focused
     THEN <<EffInitFocus(At(inputs, index))>>
     ELSE IF index2 > 0
          THEN <<EffInitFocus(At(inputs, index2 - 1))>>
          ELSE <<>>

\* Variant of tabFocus: the first half does not return.
tabFocus_NoReturn(x) ==
  /\ last' = [NoHandler EXCEPT
                !.op = "tabFocus", !.input = x,
                !.effects = tabFocusCalls_NextOnly(form, x) \o
                            (IF indexOf(form.inputs, form.focused) > 0
                             THEN <<EffInitFocus(At(form.inputs, indexOf(form.inputs, form.focused) - 1))>>
                             ELSE <<>>)]
  /\ form' = form
  /\ FormUnchanged

\* Form.tabFocus (form.ts:37-56) on any input, registered or not.  The
\* initFocus of a TextInput (part_000:298-300) is its setFocus, which raises
\* no focus event (part_000:305-311): the registry is not called back.
tabFocus(x) ==
  /\ last' = [NoHandler EXCEPT !.op = "tabFocus", !.input = x,
                               !.effects = tabFocusCalls(form, x)]
  /\ form' = form
  /\ FormUnchanged

NextForm ==
  \/ \E x \in Inputs : register(x)
  \/ \E x \in Inputs : deregister(x)
  \/ \E x \in Inputs : setAsFocused(x)
  \/ \E x \in Inputs : unsetAsFocused(x)
  \/ \E x \in Inputs : tabFocus(x)

SpecForm == InitForm /\ [][NextForm]_vars

(***************************************************************************)
(* SpecTouch: a page with inputBlurring; field A with every combination of *)
(* scrollAssist, scrollPadding and Content, and touches on the document.   *)
(***************************************************************************)
InitTouch ==
  /\ geo = NoGeometry
  /\ plan = NoPlan
  /\ dist = NoDist
  /\ dur = NoDur
  /\ useAssist \in BOOLEAN
  /\ usePadding \in BOOLEAN
  /\ blurOnFocus = FALSE
  /\ inputBlurring = TRUE
  /\ sharedParent = FALSE
  /\ clone = FALSE
  /\ content \in BOOLEAN
  /\ Idle

\* What a touch can end on: an input, a textarea, the .input-cover of a
\* scroll-assist field, anything else.
Targets ==
  { [tagName |-> "INPUT", inputCover |-> FALSE],
    [tagName |-> "TEXTAREA", inputCover |-> FALSE],
    [tagName |-> "DIV", inputCover |-> TRUE],
    [tagName |-> "DIV", inputCover |-> FALSE] }

\* The test of the touchend listener (part_000:373-375).
TappedOutside(t) ==
  t.tagName # "INPUT" /\ t.tagName # "TEXTAREA" /\ ~t.inputCover

\* A touch ends on target t: the document's touchend listeners run
\* (part_000:370-379).  blur() on the element that has the focus raises its
\* blur event, on another element nothing.
touchend(t) ==
  /\ inputBlurring
  /\ LET called == {f \in Fields : touch[f].listeners > 0 /\ TappedOutside(t)}
         blurs == {f \in called : isFocus[f]}
         h == [NoHandler EXCEPT !.op = "touchend", !.target = t,
                                !.effects = IF called = {} THEN <<>> ELSE <<EffBlur>>]
     IN IF blurs = {}
        THEN /\ last' = h
             /\ UNCHANGED <<geomVars, durVars, configVars, lockVars, fieldVars, domVars, sideVars>>
        ELSE \E f \in blurs : blurEvent(f, [h EXCEPT !.f = f])

NextTouch ==
  \/ pointerDown("A")
  \/ pointerUp("A")
  \/ scrollCompleted("A")
  \/ lockTimeout
  \/ \E f \in Fields : fireFocus(f)
  \/ \E f \in Fields : fireBlur(f)
  \/ flushWrites
  \/ \E t \in Targets : touchend(t)

SpecTouch == InitTouch /\ [][NextTouch]_vars

(***************************************************************************)
(* SpecSync: NativeSync (part_002) after its constructor, with a bridge    *)
(* window.IonicNativeUI that is there from the start or is defined later.  *)
(***************************************************************************)
MaxCalls == 3

\* The actions handed to action(); the arguments go with the name.
ActionNames == {"push", "pop"}

\* The constructor (part_002:17-30) has called platform.ready() and attached
\* its callback; the promise is pending.
InitSync ==
  /\ geo = NoGeometry
  /\ plan = NoPlan
  /\ dist = NoDist
  /\ dur = NoDur
  /\ DefaultConfig
  /\ clone = FALSE
  /\ content = FALSE
  /\ IdleAssist
  /\ IdleDom
  /\ edit = [f \in Fields |-> PlainText]
  /\ toggle = NoToggle
  /\ form = NoForm
  /\ sync \in { [NoSync EXCEPT !.ready = "pending", !.bridge = b] : b \in BOOLEAN }
  /\ last = NoHandler

\* Variant of sendMessages: the queue is not reset.
sendMessages_KeepsQueue(s) ==
  IF ~s.bridge THEN s
  ELSE [s EXCEPT !.handed = @ \o s.actionQueue]

\* _sendMessages (part_002:32-41) on the NativeSync s.
sendMessages(s) ==
  IF ~s.bridge THEN s
  ELSE [s EXCEPT !.handed = @ \o s.actionQueue, !.actionQueue = <<>>]

\* The IonicNativeUI.action calls of that run (part_002:37).
Handed(s) ==
  IF ~s.bridge THEN <<>>
  ELSE [i \in 1..Len(s.actionQueue) |-> EffNativeAction(s.actionQueue[i])]

SyncUnchanged ==
  UNCHANGED <<geomVars, durVars, configVars, lockVars, fieldVars, domVars, edit, toggle, form>>

\* action (part_002:43-50).  call numbers the calls of action().
action(name) ==
  /\ sync.calls < MaxCalls
  /\ LET message == [actionName |-> name, call |-> sync.calls + 1]
         s == [sync EXCEPT !.actionQueue = Append(@, message), !.calls = @ + 1]
     IN /\ sync' = sendMessages(s)
        /\ last' = [NoHandler EXCEPT !.op = "action", !.input = message.call,
                                     !.effects = Handed(s)]
  /\ SyncUnchanged

\* The callback of platform.ready() (part_002:18-29).
platformReady ==
  /\ sync.ready = "pending"
  /\ sync' = [sendMessages(sync) EXCEPT !.ready = "done", !.onNavPop = sync.bridge]
  /\ last' = [NoHandler EXCEPT
                !.op = "platformReady",
                !.effects = Handed(sync) \o
                            (IF sync.bridge THEN <<EffOnNavPop>> ELSE <<>>)]
  /\ SyncUnchanged

\* The native side defines window.IonicNativeUI (part_002:6, 21, 33).
bridgeLoaded ==
  /\ ~sync.bridge
  /\ sync' = [sync EXCEPT !.bridge = TRUE]
  /\ last' = [NoHandler EXCEPT !.op = "bridgeLoaded"]
  /\ SyncUnchanged

\* The native side reports a nav pop to the callback of part_002:22-25.
navPop ==
  /\ sync.onNavPop
  /\ last' = [NoHandler EXCEPT !.op = "navPop", !.effects = <<EffNavPop>>]
  /\ UNCHANGED sync
  /\ SyncUnchanged

NextSync ==
  \/ \E name \in ActionNames : action(name)
  \/ platformReady
  \/ bridgeLoaded
  \/ navPop

SpecSync == InitSync /\ [][NextSync]_vars

(***************************************************************************)
(* The properties.  Geometry is restated here from the four inputs, in     *)
(* half pixels, independently of the definitions getScrollData uses.       *)
(***************************************************************************)
Computed == plan # NoPlan

FieldTop(g) == Px(g.offsetTop + g.contentTop - g.scrollTop)
FieldBottom(g) == FieldTop(g) + Px(g.offsetHeight)
SafeTop(g) == Px(g.contentTop)
SafeHeight(g) == g.plaformHeight - g.keyboardHeight - g.contentTop
SafeBottom(g) == SafeTop(g) + SafeHeight(g)

Within(y, g) == SafeTop(g) <= y /\ y <= SafeBottom(g)
FullyInside(g) == Within(FieldTop(g), g) /\ Within(FieldBottom(g), g)
FieldBelow(g) == FieldTop(g) > SafeBottom(g)
FieldAbove(g) == FieldTop(g) < SafeTop(g)

\* r (half pixels) is Math.round of the value h (half pixels).
IsRounded(r, h) == r % 2 = 0 /\ (r = h \/ r = h + 1)

WholePixels(v) == v % 2 = 0

\* C1: a field whose top and bottom both lie within [safeAreaTop,
\* safeAreaBottom] gets the all-zero plan.
C1_InsideGivesZeroPlan ==
  Computed /\ FullyInside(geo) =>
    /\ plan.scrollAmount = 0
    /\ plan.scrollTo = 0
    /\ plan.scrollPadding = 0
    /\ plan.inputSafeY = 0

C1_Witness ==
  /\ Computed
  /\ FullyInside(geo)
  /\ geo.keyboardHeight > 0
  /\ geo.scrollTop > 0
  /\ geo.offsetHeight > 0

\* C2 as stated: a field below the safe area gets a positive scrollAmount,
\* a field whose top is above the safe area a negative one.
C2_SignAsStated ==
  Computed =>
    /\ (FieldBelow(geo) => plan.scrollAmount > 0)
    /\ (FieldAbove(geo) => plan.scrollAmount < 0)

\* C2: the signs are the other way round.  For a field of positive height,
\* below a safe area of non-negative height scrollAmount is negative; with
\* its top above the safe area scrollAmount is positive.
C2_SignOfScrollAmount ==
  Computed /\ geo.offsetHeight > 0 =>
    /\ (FieldBelow(geo) /\ SafeHeight(geo) >= 0 => plan.scrollAmount < 0)
    /\ (FieldAbove(geo) => plan.scrollAmount > 0)

C2_Witness ==
  /\ Computed
  /\ geo.offsetHeight > 0
  /\ SafeHeight(geo) > 0
  /\ FieldBelow(geo)
  /\ plan.scrollAmount < 0

\* C3: when the field's top is above the safe area, |scrollAmount| is at
\* most the field's height, in either branch of the amount computation.
C3_Clamp ==
  Computed /\ FieldAbove(geo) => Abs(plan.scrollAmount) <= Px(geo.offsetHeight)

\* The clamp of step 6 cuts the amount: the top is above the safe area and
\* the rounded amount exceeds the field's height.
ClampCuts(g) ==
  /\ FieldAbove(g)
  /\ \/ SafeHeight(g) > Px(g.offsetHeight) /\ SafeBottom(g) - FieldBottom(g) >= Px(g.offsetHeight) + 1
     \/ SafeHeight(g) <= Px(g.offsetHeight) /\ SafeTop(g) - FieldTop(g) > Px(g.offsetHeight)

\* The field is far enough above for the clamp to cut the amount down.
C3_Witness ==
  /\ Computed
  /\ geo.offsetHeight > 0
  /\ ClampCuts(geo)
  /\ plan.scrollAmount = Px(geo.offsetHeight)

\* C4: outside the safe area and without the clamp, scrollAmount is
\* round(safeAreaBottom - inputBottom) when the safe area is taller than the
\* field and round(safeAreaTop - inputTop) otherwise, scrollTo is scrollTop -
\* scrollAmount, inputSafeY is -(inputTop - safeAreaTop) + 4, all four fields
\* are whole pixels, and the documented example gives -350 and 350.
C4_PlanValues ==
  /\ Computed /\ ~FullyInside(geo) /\ ~ClampCuts(geo) =>
       /\ IF SafeHeight(geo) > Px(geo.offsetHeight)
          THEN IsRounded(plan.scrollAmount, SafeBottom(geo) - FieldBottom(geo))
          ELSE IsRounded(plan.scrollAmount, SafeTop(geo) - FieldTop(geo))
       /\ plan.scrollTo = Px(geo.scrollTop) - plan.scrollAmount
       /\ plan.inputSafeY = -(FieldTop(geo) - SafeTop(geo)) + Px(4)
       /\ WholePixels(plan.scrollAmount)
       /\ WholePixels(plan.scrollTo)
       /\ WholePixels(plan.scrollPadding)
       /\ WholePixels(plan.inputSafeY)
  /\ Computed /\ geo = ExampleGeometry =>
       /\ plan.scrollAmount = Px(-350)
       /\ plan.scrollTo = Px(350)

\* A half-pixel safe-area bottom, so that the rounding decides the amount.
C4_Witness ==
  /\ Computed
  /\ ~FullyInside(geo)
  /\ ~ClampCuts(geo)
  /\ SafeHeight(geo) > Px(geo.offsetHeight)
  /\ SafeHeight(geo) % 2 = 1
  /\ plan.scrollAmount < 0

C4_WitnessExample ==
  /\ Computed
  /\ geo = ExampleGeometry

\* C5: scrollPadding is 0 when the field is fully inside the safe area and
\* keyboardHeight in every other case, and every other case is one the
\* scroll classification covers (top below, bottom below or top above).
C5_Padding ==
  Computed =>
    /\ FullyInside(geo) => plan.scrollPadding = 0
    /\ ~FullyInside(geo) =>
         /\ plan.scrollPadding = Px(geo.keyboardHeight)
         /\ FieldBelow(geo) \/ FieldBottom(geo) > SafeBottom(geo) \/ FieldAbove(geo)

\* Padding is handed out although the amount came out as zero.
C5_Witness ==
  /\ Computed
  /\ ~FullyInside(geo)
  /\ geo.keyboardHeight > 0
  /\ plan.scrollAmount = 0
  /\ plan.scrollPadding = Px(geo.keyboardHeight)

\* C6: the duration is clamp(|d| / 0.3, 150, 400) ms: within [150, 400],
\* non-decreasing in |d|, the same for d and -d; and the timeout handed to
\* setEnabled(false, ..) is the duration handed to scrollTo.
C6_Duration ==
  /\ dur # NoDur =>
       /\ \A i \in 1..2 :
            /\ Ms(150) <= dur[i] /\ dur[i] <= Ms(400)
            /\ Abs(dist[i]) * 5 <= Ms(150) => dur[i] = Ms(150)
            /\ Abs(dist[i]) * 5 >= Ms(400) => dur[i] = Ms(400)
            /\ Ms(150) < Abs(dist[i]) * 5 /\ Abs(dist[i]) * 5 < Ms(400) => dur[i] = Abs(dist[i]) * 5
       /\ Abs(dist[1]) <= Abs(dist[2]) => dur[1] <= dur[2]
       /\ dist[1] = -dist[2] => dur[1] = dur[2]
  /\ \A i, j \in 1..Len(last.effects) :
       last.effects[i][1] = "setEnabled" /\ last.effects[j][1] = "scrollTo" =>
         /\ last.effects[i][3] = last.effects[j][3]
         /\ last.effects[i][3] = dur[1]
         /\ lockTimer = dur[1]
  /\ \A f \in Fields : \A i \in 1..Len(scrolls[f]) : scrolls[f][i].ms = lockTimer

\* A negative distance in the unclamped range, and its scroll was started.
C6_Witness ==
  /\ dur # NoDur
  /\ dist[1] < 0
  /\ dist[2] = -dist[1]
  /\ Ms(150) < dur[1] /\ dur[1] < Ms(400)
  /\ scrolls["A"] # <<>>
  /\ "scrollTo" \in Names(last.effects)

\* The squared 8-unit threshold of the tap-versus-drag decision.
IsTap(h) == h.moved < 8 * 8

\* C7: with the lock open, a pointer-up less than 8 units from the recorded
\* coordinate on a field without focus suppresses the default action and
\* starts the focus initiation; a pointer-up 8 units or more away, or on a
\* field that has the focus, starts no focus initiation, leaves the lock as
\* it is and starts no scroll.
C7_TapVersusDrag ==
  [][ last'.op = "pointerUp" /\ last'.enabled =>
        IF IsTap(last') /\ ~last'.focused
        THEN last'.prevented /\ last'.inited
        ELSE /\ ~last'.inited
             /\ last'.effects = <<>>
             /\ appEnabled' = appEnabled
             /\ lockTimer' = lockTimer
             /\ scrolls' = scrolls
             /\ scrollData' = scrollData
             /\ relocated' = relocated ]_vars

\* A tap with a displacement that is neither zero nor over the threshold.
C7_Witness ==
  /\ last.op = "pointerUp"
  /\ last.enabled
  /\ last.moved > 0
  /\ IsTap(last)
  /\ ~last.focused
  /\ last.inited

\* C8: a qualifying tap always ends with focus() called on the field's
\* native element, whatever the plan and whether or not there is a Content.
C8_TapGrantsFocus ==
  last.op = "pointerUp" /\ last.inited => "focus" \in Names(last.effects)

\* C9: while the lock is closed, pointerDown returns false and keeps the
\* recorded coordinate (it records one exactly when the lock is open), and
\* pointerUp suppresses default and propagation and does nothing else.
C9_LockedPointerEvents ==
  [][ /\ last'.op = "pointerDown" =>
           /\ last'.ret = appEnabled
           /\ appEnabled => coord'[last'.f] \in DownCoords
           /\ ~appEnabled => coord' = coord
      /\ last'.op \in {"pointerDown", "pointerUp"} /\ ~appEnabled =>
           /\ ~last'.inited
           /\ last'.effects = <<>>
           /\ coord' = coord
           /\ appEnabled' = appEnabled
           /\ lockTimer' = lockTimer
           /\ scrolls' = scrolls
           /\ scrollData' = scrollData
           /\ relocated' = relocated
           /\ isFocus' = isFocus
      /\ last'.op = "pointerUp" /\ ~appEnabled => last'.prevented /\ last'.stopped ]_vars

\* A pointer-up was swallowed: the lock closed between its pointer-down and it.
C9_Witness ==
  /\ last.op = "pointerUp"
  /\ ~last.enabled
  /\ ~appEnabled
  /\ last.prevented
  /\ coord[last.f] # NoCoord

\* C10: a field never has two scroll-assist transitions in flight, a
\* transition lasting from its scrollTo call to its completion callback.
C10_OneTransitionPerField ==
  \A f \in Fields : Len(scrolls[f]) <= 1

\* C11: the lock does not stay closed: whenever it is closed it is open
\* again later, through the completion callback or through the timeout of
\* the scroll duration, also when the completion callback never comes or
\* beginFocus failed before the scroll was started.
C11_LockReopens == (~appEnabled) ~> appEnabled

\* The timeout reopened a lock whose transition had failed in beginFocus:
\* no scroll of that field is pending, so no completion callback can come.
C11_Witness ==
  /\ last.op = "lockTimeout"
  /\ appEnabled
  /\ \E f \in Fields : relocated[f] /\ scrolls[f] = <<>>

\* The real element of f is off screen with exactly one clone in its place.
Relocated(f) ==
  /\ dom[f].clones = 1
  /\ Len(dom[f].transform) = 4
  /\ dom[f].transform = Translate3d(-9999, dom[f].transform[3], 0)
  /\ dom[f].opacity = "0"

\* C12: the closure's relocated flag is true exactly when the real element
\* is translated off screen with one clone in place; beginFocus(true, y)
\* twice leaves one clone, beginFocus(false, _) on a field that is not
\* relocated changes nothing.
C12_RelocatedMeansHidden ==
  \A f \in Fields :
    /\ relocated[f] <=> Relocated(f)
    /\ dom[f].clones <= 1

\* Position of the first call named n in a handler's calls, 0 if none.
FirstCall(effects, n) ==
  IF n \in Names(effects)
  THEN CHOOSE i \in 1..Len(effects) :
         effects[i][1] = n /\ \A j \in 1..(i - 1) : effects[j][1] # n
  ELSE 0

\* C13: with inputCloning on and a plan that needs a scroll, a qualifying
\* tap hides the real element (one clone, translate3d(-9999px, inputSafeY,
\* 0), opacity 0) before it asks for the native focus and then starts the
\* scroll; the completion restores the element (no clone, default style)
\* and reopens the lock.
C13_ClonedTransition ==
  /\ clone /\ last.op = "pointerUp" /\ last.inited /\ "setEnabled" \in Names(last.effects)
       /\ ~appEnabled =>
         /\ ~last.threw
         /\ Relocated(last.f)
         /\ dom[last.f].transform = Translate3d(-9999, scrollData[last.f].inputSafeY, 0)
         /\ 0 < FirstCall(last.effects, "beginFocus")
         /\ FirstCall(last.effects, "beginFocus") < FirstCall(last.effects, "focus")
         /\ FirstCall(last.effects, "focus") < FirstCall(last.effects, "scrollTo")
  /\ clone /\ last.op = "scrollCompleted" =>
         /\ ~last.threw
         /\ dom[last.f] = NoStyle
         /\ ~relocated[last.f]
         /\ appEnabled

\* C14: a password field has clearOnEdit on after ngOnInit unless the
\* template set it to false, a field of another type has it on only when
\* the template set it; with clearOnEdit on, the first keydown after a blur
\* with a non-empty value leaves the value empty and the flag reset, and a
\* later keydown before the next blur leaves the value as it is.
C14_ClearOnEdit ==
  [][ /\ \A f \in Fields : edit'[f].inited =>
           edit'[f].clearOnEdit = "true" <=>
             \/ edit'[f].bound = "true"
             \/ edit'[f].type = "password" /\ edit'[f].bound = "undefined"
      /\ last'.op = "onKeydown" /\ edit[last'.f].clearOnEdit = "true" =>
           LET e == edit[last'.f]
           IN /\ e.keydowns = 0 /\ e.blurValue # <<>> =>
                   /\ edit'[last'.f].value = <<>>
                   /\ edit'[last'.f].didBlurAfterEdit = "false"
              /\ e.keydowns > 0 => edit'[last'.f].value = e.value ]_vars

\* A password field without a clearOnEdit binding: the second keydown
\* after a blur with a value, on a value typed after the first one cleared.
C14_Witness ==
  /\ last.op = "onKeydown"
  /\ edit["A"].type = "password"
  /\ edit["A"].bound = "undefined"
  /\ edit["A"].blurValue # <<>>
  /\ edit["A"].keydowns = 2
  /\ edit["A"].value # <<>>

\* C15: with scrollPadding on and a Content, every focus event asks the
\* Content for bottom padding of the keyboard height and arms the clearing
\* on focus-out, without failing, however the focus arrived and whether or
\* not a plan was computed for it.
C15_PaddingOnEveryFocus ==
  usePadding /\ content /\ last.op = "fireFocus" =>
    /\ ~last.threw
    /\ \E i \in 1..Len(last.effects) :
         /\ last.effects[i][1] = "addScrollPadding"
         /\ last.effects[i][2] = Px(KeyboardHeight)
    /\ "clearScrollPaddingFocusOut" \in Names(last.effects)

\* C16: with blurOnFocus, once the Content has stopped scrolling or the
\* field has lost the focus, and every queued DOM write has run, the field
\* is restored: no clone, no transform, pointer events as before.
C16_RestoredAfterScroll ==
  \A f \in Fields :
    writes = <<>> /\ (~scrolling \/ ~isFocus[f]) => dom[f] = NoStyle

\* C17: without a Content a qualifying tap only focuses the field: focus()
\* is called, no plan is computed, scrollTo is not called, nothing is
\* relocated, the lock stays as it was and nothing fails.
C17_NoContentDirectFocus ==
  ~content /\ last.op = "pointerUp" /\ last.inited =>
    /\ Names(last.effects) = {"focus"}
    /\ ~last.threw
    /\ scrollData[last.f] = NoPlan
    /\ scrolls[last.f] = <<>>
    /\ ~relocated[last.f]
    /\ dom[last.f] = NoStyle
    /\ appEnabled = last.enabled
    /\ lockTimer = 0

\* The toggle sits in a navbar of a view.
InNavbarOfView == toggle.inNavbar /\ toggle.viewCtrl

Place(x) ==
  IF \E i \in 1..Len(form.inputs) : form.inputs[i] = x
  THEN CHOOSE i \in 1..Len(form.inputs) : form.inputs[i] = x
  ELSE 0

\* An input is registered immediately after x.
HasNext(x) == Place(x) > 0 /\ Place(x) < Len(form.inputs)
NextInput(x) == form.inputs[Place(x) + 1]

C20_TrivialPlanDirectFocus ==
  /\ last.op = "pointerUp" /\ last.inited /\ content
  /\ Abs(scrollData[last.f].scrollAmount) < Px(4)
  =>
  /\ "focus" \in Names(last.effects)
  /\ Names(last.effects) \subseteq {"getScrollData", "focus", "setEnabled"}
  /\ \A i \in 1..Len(last.effects) :
       last.effects[i][1] = "setEnabled" => last.effects[i][2]
  /\ ~last.threw
  /\ dom[last.f] = NoStyle
  /\ appEnabled

\* The handler that ran last closed the lock: a tap on a plan that needs a
\* scroll.
ClosedLock(h) ==
  \E i \in 1..Len(h.effects) : h.effects[i][1] = "setEnabled" /\ ~h.effects[i][2]

Restores(f) ==
  \/ last'.op = "fireBlur" /\ last'.f = f /\ "hideFocus" \in Names(last'.effects)
  \/ last'.op = "flushWrites" /\ writes = <<[f |-> f, op |-> "show"]>>

\* C22: restoring a field removes the clones of that field and resets its
\* transform, opacity and pointer events; the clones and the style of every
\* other field, also of one under the same parent, stay as they are.
C22_RestoreLeavesOthers ==
  [][ \A f \in Fields : Restores(f) =>
        /\ dom'[f] = NoStyle
        /\ \A g \in Fields \ {f} : dom'[g] = dom[g] ]_vars

\* C23: with inputBlurring, while a field has the focus a touchend on a
\* target that is neither INPUT, TEXTAREA nor .input-cover blurs the field,
\* and a touchend on such a target leaves it focused.
C23_TouchendOutsideBlurs ==
  [][ \A f \in Fields :
        inputBlurring /\ isFocus[f] /\ last'.op = "touchend" =>
          isFocus'[f] = ~TappedOutside(last'.target) ]_vars

\* C29: with inputBlurring, a field has one touchend listener on the
\* document while it is focused and none while it is blurred.
C29_OneListenerWhileFocused ==
  \A f \in Fields :
    inputBlurring => touch[f].listeners = (IF isFocus[f] THEN 1 ELSE 0)

\* C24: the lock that the transition of one field closed is not reopened by
\* the late completion callback of another field's scroll: when a tap has
\* just started a transition, the completion of an older scroll of another
\* field leaves the lock closed.
C24_LateCompletionKeepsLock ==
  [][ /\ last.op = "pointerUp"
      /\ "scrollTo" \in Names(last.effects)
      /\ ~appEnabled
      /\ last'.op = "scrollCompleted"
      /\ last'.f # last.f
      => ~appEnabled' ]_vars

\* The call numbers of a sequence of messages.
CallsOf(ms) == [i \in 1..Len(ms) |-> ms[i].call]

\* C25: the actions handed to the bridge and the actions in the queue are,
\* in this order, the actions enqueued so far: each is handed over at most
\* once, in the order of the action() calls, and none is dropped; and after
\* a run of _sendMessages with the bridge available the queue is empty.
C25_HandedOnceInOrder ==
  /\ CallsOf(sync.handed \o sync.actionQueue) = [i \in 1..sync.calls |-> i]
  /\ ~sync.bridge => sync.handed = <<>>
  /\ last.op \in {"action", "platformReady"} /\ sync.bridge => sync.actionQueue = <<>>

C25_Witness ==
  /\ last.op = "action"
  /\ Len(last.effects) = 2
  /\ CallsOf(sync.handed) = <<1, 2>>

\* C26: once the bridge is available and the callback of platform.ready()
\* has run, no action waits in the queue: nothing but a further action()
\* call would hand it over.
C26_NoActionStranded ==
  sync.bridge /\ sync.ready = "done" => sync.actionQueue = <<>>

\* C27: deregister(x) leaves x not marked as focused; unsetAsFocused(y) for
\* an input y that is not the focused one leaves the focused input as it
\* was; register and tabFocus leave it as it was.
C27_FocusRegistry ==
  [][ /\ last'.op = "deregister" => form'.focused # last'.input
      /\ last'.op = "unsetAsFocused" /\ last'.input # form.focused =>
           form'.focused = form.focused
      /\ last'.op \in {"register", "tabFocus"} => form'.focused = form.focused ]_vars

C27_Witness ==
  /\ last.op = "deregister"
  /\ last.focused
  /\ form.focused = NoInput
  /\ form.inputs # <<>>

\* C28: a call of tabFocus invokes initFocus on at most one input, and not
\* on the input that is marked as focused.
C28_TabFocusAtMostOneOther ==
  last.op = "tabFocus" =>
    /\ Len(last.effects) <= 1
    /\ \A i \in 1..Len(last.effects) : last.effects[i] # EffInitFocus(form.focused)

C28_Witness ==
  /\ last.op = "tabFocus"
  /\ form.focused # NoInput
  /\ last.input = form.focused
  /\ Len(last.effects) = 1

====
